---- MODULE Spec2Model ----
(***************************************************************************)
(* Model of the AFL disposal feature pipeline (src/src/features.py) and of *)
(* the scraper's master loop (src/src/data_loader.py, save_all_data).      *)
(*                                                                         *)
(* Text is modelled as sequences of one-character strings, so that         *)
(* str(), strip(), isdigit(), int() and the string ordering used by        *)
(* sort_values are computed rather than assumed.  Floating-point means are *)
(* kept exact as a (sum, count) pair.                                      *)
(***************************************************************************)
EXTENDS Integers, Sequences, FiniteSets, TLC

VARIABLES
    pc,              \* position of build_features / of the driver of the other specifications
    csv,             \* rows of data/raw/all_games.csv (text cells)
    opponent_csv,    \* data/raw/opponent_stats.csv
    venue_csv,       \* data/raw/venue_stats.csv
    heap,            \* the DataFrame objects build_features has held (sequence of tables)
    games_df,        \* build_features' local games_df: an index into heap (0: unbound)
    opponent_stats,  \* build_features' local opponent_stats
    venue_stats,     \* build_features' local venue_stats
    round_str,       \* argument handed to parse_round
    round_num,       \* value returned by parse_round
    mem,             \* save_all_data's locals and loop position (of the running process)
    disk,            \* what save_all_data has written under data/raw/
    fetched          \* history: players fetched by interrupted runs, pages requested by the running one

pipelineVars == <<csv, opponent_csv, venue_csv, heap, games_df, opponent_stats, venue_stats>>
roundVars == <<round_str, round_num>>
scrapeVars == <<mem, disk, fetched>>
vars == <<pc, csv, opponent_csv, venue_csv, heap, games_df, opponent_stats, venue_stats,
          round_str, round_num, mem, disk, fetched>>

(***************************************************************************)
(* Values: a nullable float cell, and the typed cell of the round column.  *)
(***************************************************************************)
NaN == [isna |-> TRUE, v |-> 0]
Num(x) == [isna |-> FALSE, v |-> x]
isna(c) == c.isna
notna(c) == ~c.isna

StrCell(s) == [t |-> "str", n |-> 0, s |-> s]
IntCell(n) == [t |-> "int", n |-> n, s |-> <<>>]

Max(a, b) == IF a > b THEN a ELSE b
Min(a, b) == IF a < b THEN a ELSE b

(***************************************************************************)
(* Characters and Python's string operations.                              *)
(***************************************************************************)
DigitSeq == <<"0", "1", "2", "3", "4", "5", "6", "7", "8", "9">>
DigitChars == {DigitSeq[i] : i \in 1..Len(DigitSeq)}
Whitespace == {" "}

\* Code point of a character (the order Python compares str by).
Ord(c) ==
    CASE c = " " -> 32
      [] c \in DigitChars -> 47 + (CHOOSE i \in 1..Len(DigitSeq) : DigitSeq[i] = c)
      [] c = "B" -> 66
      [] c = "D" -> 68
      [] c = "E" -> 69
      [] c = "F" -> 70
      [] c = "G" -> 71
      [] c = "P" -> 80
      [] c = "Q" -> 81
      [] c = "S" -> 83
      [] c = "T" -> 84
      [] c = "f" -> 102
      [] c = "g" -> 103

DigitVal(c) == Ord(c) - 48

\* str < str: lexicographic by code point, a proper prefix first.
StrLess(s, t) ==
    \E k \in 1..(Min(Len(s), Len(t)) + 1) :
        /\ \A j \in 1..(k - 1) : s[j] = t[j]
        /\ \/ k > Len(s) /\ k <= Len(t)
           \/ k <= Len(s) /\ k <= Len(t) /\ Ord(s[k]) < Ord(t[k])

RECURSIVE lstrip(_)
lstrip(s) == IF Len(s) > 0 /\ Head(s) \in Whitespace THEN lstrip(Tail(s)) ELSE s

RECURSIVE rstrip(_)
rstrip(s) ==
    IF Len(s) > 0 /\ s[Len(s)] \in Whitespace THEN rstrip(SubSeq(s, 1, Len(s) - 1)) ELSE s

strip(s) == rstrip(lstrip(s))

isdigit(s) == Len(s) > 0 /\ \A i \in 1..Len(s) : s[i] \in DigitChars

\* int(s) for a string of digits.
RECURSIVE int(_)
int(s) == IF Len(s) = 0 THEN 0 ELSE 10 * int(SubSeq(s, 1, Len(s) - 1)) + DigitVal(s[Len(s)])

\* str(n) for a non-negative integer.
RECURSIVE IntToStr(_)
IntToStr(n) ==
    IF n < 10 THEN <<DigitSeq[n + 1]>> ELSE IntToStr(n \div 10) \o <<DigitSeq[(n % 10) + 1]>>

\* str(x) of a cell of the round column.
str(cell) == IF cell.t = "int" THEN IntToStr(cell.n) ELSE cell.s

L_QF == <<"Q", "F">>
L_EF == <<"E", "F">>
L_SF == <<"S", "F">>
L_PF == <<"P", "F">>
L_GF == <<"G", "F">>

\* A plausible slip: the label is not stripped before it is tested.
parse_round_nostrip(cell) ==
    LET s == str(cell)
    IN  IF isdigit(s) THEN Num(int(s))
        ELSE IF s = L_QF THEN Num(25)
        ELSE IF s = L_EF THEN Num(25)
        ELSE IF s = L_SF THEN Num(26)
        ELSE IF s = L_PF THEN Num(27)
        ELSE IF s = L_GF THEN Num(28)
        ELSE NaN

parse_round(cell) ==
    LET s == strip(str(cell))
    IN  IF isdigit(s) THEN Num(int(s))
        ELSE IF s = L_QF THEN Num(25)
        ELSE IF s = L_EF THEN Num(25)
        ELSE IF s = L_SF THEN Num(26)
        ELSE IF s = L_PF THEN Num(27)
        ELSE IF s = L_GF THEN Num(28)
        ELSE NaN

(***************************************************************************)
(* Specification SpecRound: parse_round applied to every bounded label.    *)
(***************************************************************************)
MaxLabelLen == 3
MaxRoundInt == 30

\* The characters the enumerated labels are written in.
LabelChars == {" ", "0", "1", "2", "3", "B", "D", "E", "F", "G", "P", "Q", "S", "T", "f"}

RECURSIVE StringsUpTo(_)
StringsUpTo(n) ==
    IF n = 0 THEN {<<>>}
    ELSE LET shorter == StringsUpTo(n - 1)
         IN  shorter \cup
             {Append(s, c) : s \in {t \in shorter : Len(t) = n - 1}, c \in LabelChars}

RoundCells ==
    {StrCell(s) : s \in StringsUpTo(MaxLabelLen)} \cup {IntCell(n) : n \in 0..MaxRoundInt}

IdleCell == StrCell(<<>>)

NoFiles == [games |-> {}, opponent |-> {}, venue |-> {}]
NoProcess == [at |-> "exited"]
NoHistory == [earlier |-> {}, now |-> {}, runs |-> 0]

InitScrapeIdle ==
    /\ mem = NoProcess
    /\ disk = NoFiles
    /\ fetched = NoHistory

InitRound ==
    /\ pc = "parse"
    /\ round_str \in RoundCells
    /\ round_num = NaN
    /\ csv = <<>>
    /\ opponent_csv = <<>>
    /\ venue_csv = <<>>
    /\ heap = <<>>
    /\ games_df = 0
    /\ opponent_stats = <<>>
    /\ venue_stats = <<>>
    /\ InitScrapeIdle

ParseRound ==
    /\ pc = "parse"
    /\ round_num' = parse_round(round_str)
    /\ pc' = "parsed"
    /\ UNCHANGED <<round_str, pipelineVars, scrapeVars>>

NextRound == ParseRound

SpecRound == InitRound /\ [][NextRound]_vars

(***************************************************************************)
(* Tables.  A table is a sequence of rows; a row is a record whose field   *)
(* "idx" is the DataFrame index label and whose other fields are columns.  *)
(***************************************************************************)
Index(df) == {df[i].idx : i \in 1..Len(df)}
RowAt(df, id) == df[CHOOSE i \in 1..Len(df) : df[i].idx = id]

\* games_df[col] = vals, the assignment of a whole column.
SetCol(df, col, vals) == [i \in 1..Len(df) |-> (col :> vals[i]) @@ df[i]]

RECURSIVE SumSeq(_)
SumSeq(s) == IF Len(s) = 0 THEN 0 ELSE Head(s) + SumSeq(Tail(s))

\* pd.read_csv of the game log: the index is 0..n-1, and the round column is
\* int64 when every cell parses as an integer and object (str) otherwise.
read_csv(file) ==
    LET numeric == \A i \in 1..Len(file) : isdigit(file[i].round)
    IN  [i \in 1..Len(file) |->
            ("idx" :> (i - 1)) @@
            ("round" :> (IF numeric THEN IntCell(int(file[i].round))
                         ELSE StrCell(file[i].round))) @@
            file[i]]

MIN_GAME_PCT == 50

GE(cell, bound) == notna(cell) /\ cell.v >= bound

\* games_df.groupby("player")["disposals"].mean(), as exact (sum, count) pairs.
player_averages(df) ==
    [p \in {df[i].player : i \in 1..Len(df)} |->
        LET rows == SelectSeq(df, LAMBDA r : r.player = p)
        IN  [sum |-> SumSeq([i \in 1..Len(rows) |-> rows[i].disposals]), n |-> Len(rows)]]

\* mean >= bound
MeanGE(m, bound) == m.sum >= bound * m.n

\* Slips of the filter: an exclusive usage threshold, and a single pass that
\* averages over the unfiltered rows.
usage_filter_exclusive(df) ==
    LET avgs == player_averages(df)
        high_usage_players == {p \in DOMAIN avgs : avgs[p].sum > 8 * avgs[p].n}
    IN  SelectSeq(df, LAMBDA r : r.player \in high_usage_players)

usage_filter(df) ==
    LET avgs == player_averages(df)
        high_usage_players == {p \in DOMAIN avgs : MeanGE(avgs[p], 8)}
    IN  SelectSeq(df, LAMBDA r : r.player \in high_usage_players)

game_pct_filter(df) == SelectSeq(df, LAMBDA r : GE(r.game_pct, MIN_GAME_PCT))

(***************************************************************************)
(* add_rolling_features                                                    *)
(***************************************************************************)
PlayerSeq == <<"Jordan Dawson", "Rory Laird", "Sam Berry">>
PlayerOrd(p) == CHOOSE i \in 1..Len(PlayerSeq) : PlayerSeq[i] = p

CellLess(a, b) == IF a.t = "int" THEN a.n < b.n ELSE StrLess(a.s, b.s)

\* Row a sorts strictly before row b under the key (player, season, round).
KeyLess(a, b) ==
    \/ PlayerOrd(a.player) < PlayerOrd(b.player)
    \/ /\ a.player = b.player
       /\ \/ a.season < b.season
          \/ a.season = b.season /\ CellLess(a.round, b.round)

\* Stable insertion: r goes before the first row that sorts strictly after it.
Insert(sorted, r) ==
    LET later == {j \in 1..Len(sorted) : KeyLess(r, sorted[j])}
        k == IF later = {} THEN Len(sorted) + 1
             ELSE CHOOSE j \in later : \A m \in later : j <= m
    IN  SubSeq(sorted, 1, k - 1) \o <<r>> \o SubSeq(sorted, k, Len(sorted))

RECURSIVE sort_values(_)
sort_values(df) ==
    IF Len(df) = 0 THEN <<>>
    ELSE Insert(sort_values(SubSeq(df, 1, Len(df) - 1)), df[Len(df)])

\* The disposals of one player's rows, in table order: a group of the groupby.
GroupSeries(df, p) ==
    LET rows == SelectSeq(df, LAMBDA r : r.player = p)
    IN  [k \in 1..Len(rows) |-> rows[k].disposals]
RankInGroup(df, i) == Cardinality({j \in 1..i : df[j].player = df[i].player})

\* x.shift(1)
shift_none(x) == [k \in 1..Len(x) |-> Num(x[k])]
shift(x) == [k \in 1..Len(x) |-> IF k = 1 THEN NaN ELSE Num(x[k - 1])]

\* The non-missing observations of the window that ends at position k.
Window(y, k, window) ==
    LET w == SelectSeq(SubSeq(y, Max(1, k - window + 1), k), notna)
    IN  [i \in 1..Len(w) |-> w[i].v]

NaNStat == [isna |-> TRUE, sum |-> 0, sq |-> 0, n |-> 0]

\* .rolling(window, min_periods).mean(): the mean is sum / n.
rolling_mean(y, window, min_periods) ==
    [k \in 1..Len(y) |->
        LET w == Window(y, k, window)
        IN  IF Len(w) >= min_periods
            THEN [isna |-> FALSE, sum |-> SumSeq(w), sq |-> 0, n |-> Len(w)]
            ELSE NaNStat]

\* .rolling(window, min_periods).std(): the sample deviation is
\* sqrt((n * sq - sum^2) / (n * (n - 1))).
rolling_std(y, window, min_periods) ==
    [k \in 1..Len(y) |->
        LET w == Window(y, k, window)
        IN  IF Len(w) >= min_periods
            THEN [isna |-> FALSE, sum |-> SumSeq(w),
                  sq |-> SumSeq([i \in 1..Len(w) |-> w[i] * w[i]]), n |-> Len(w)]
            ELSE NaNStat]

\* groupby("player")["disposals"]: the groups, by player.
groupby(df) == [p \in {df[i].player : i \in 1..Len(df)} |-> GroupSeries(df, p)]

\* .transform(f): out holds f of each group; its values are aligned to the rows.
transform(df, out) == [i \in 1..Len(df) |-> out[df[i].player][RankInGroup(df, i)]]

\* A slip: the lag is forgotten, so the window ends at the current game.
add_rolling_features_nolag(games_df0) ==
    LET s == sort_values(games_df0)
        g == groupby(s)
        a5 == transform(s, [p \in DOMAIN g |-> rolling_mean(shift_none(g[p]), 5, 3)])
        a10 == transform(s, [p \in DOMAIN g |-> rolling_mean(shift_none(g[p]), 10, 5)])
        s5 == transform(s, [p \in DOMAIN g |-> rolling_std(shift_none(g[p]), 5, 3)])
    IN  SetCol(SetCol(SetCol(s, "rolling_avg_5", a5), "rolling_avg_10", a10),
               "rolling_std_5", s5)

add_rolling_features(games_df0) ==
    LET s == sort_values(games_df0)
        g == groupby(s)
        a5 == transform(s, [p \in DOMAIN g |-> rolling_mean(shift(g[p]), 5, 3)])
        a10 == transform(s, [p \in DOMAIN g |-> rolling_mean(shift(g[p]), 10, 5)])
        s5 == transform(s, [p \in DOMAIN g |-> rolling_std(shift(g[p]), 5, 3)])
    IN  SetCol(SetCol(SetCol(s, "rolling_avg_5", a5), "rolling_avg_10", a10),
               "rolling_std_5", s5)

(***************************************************************************)
(* add_opponent_venue_features                                             *)
(***************************************************************************)
\* A cross-reference table: index (players), columns, and a cell per pair.
InTable(tab, player, key) == player \in tab.index /\ key \in tab.columns

\* A slip: a missing history is filled with 0.
get_opponent_da_fill0(row, stats) ==
    IF InTable(stats, row.player, row.opponent)
    THEN LET val == stats.cell[<<row.player, row.opponent>>]
         IN  IF notna(val) THEN val ELSE Num(0)
    ELSE Num(0)

get_opponent_da(row, stats) ==
    IF InTable(stats, row.player, row.opponent)
    THEN LET val == stats.cell[<<row.player, row.opponent>>]
         IN  IF notna(val) THEN val ELSE NaN
    ELSE NaN

NaNName == [isna |-> TRUE, name |-> ""]
Name(s) == [isna |-> FALSE, name |-> s]

\* A slip: without a venue column the opponent's name is used as the venue.
get_venue_da_fallback(row, stats) ==
    LET venue == IF "venue" \in DOMAIN row THEN row.venue ELSE Name(row.opponent)
    IN  IF isna(venue) THEN NaN
        ELSE IF InTable(stats, row.player, venue.name)
             THEN LET val == stats.cell[<<row.player, venue.name>>]
                  IN  IF notna(val) THEN val ELSE NaN
             ELSE NaN

get_venue_da(row, stats) ==
    LET venue == IF "venue" \in DOMAIN row THEN row.venue ELSE NaNName
    IN  IF isna(venue) THEN NaN
        ELSE IF InTable(stats, row.player, venue.name)
             THEN LET val == stats.cell[<<row.player, venue.name>>]
                  IN  IF notna(val) THEN val ELSE NaN
             ELSE NaN

add_opponent_venue_features(df, opp, ven) ==
    LET d1 == SetCol(df, "career_da_vs_opponent",
                     [i \in 1..Len(df) |-> get_opponent_da(df[i], opp)])
    IN  SetCol(d1, "career_da_at_venue", [i \in 1..Len(d1) |-> get_venue_da(d1[i], ven)])

(***************************************************************************)
(* add_target_variables, add_home_away_feature, the completeness gate      *)
(***************************************************************************)
DISPOSAL_TARGETS == <<15, 20, 25>>

TargetCol(target) ==
    CASE target = 15 -> "hit_15_disposals"
      [] target = 20 -> "hit_20_disposals"
      [] target = 25 -> "hit_25_disposals"

RECURSIVE AddTargets(_, _)
AddTargets(df, k) ==
    IF k > Len(DISPOSAL_TARGETS) THEN df
    ELSE AddTargets(
            SetCol(df, TargetCol(DISPOSAL_TARGETS[k]),
                   [i \in 1..Len(df) |->
                       IF df[i].disposals >= DISPOSAL_TARGETS[k] THEN 1 ELSE 0]),
            k + 1)

add_target_variables(df) == AddTargets(df, 1)

add_home_away_feature(df) ==
    SetCol(df, "round_num", [i \in 1..Len(df) |-> parse_round(df[i].round)])

\* A slip: dropna over every feature column instead of the subset.
dropna_any(df) ==
    SelectSeq(df, LAMBDA r : /\ notna(r.rolling_avg_5)
                             /\ notna(r.rolling_avg_10)
                             /\ notna(r.career_da_vs_opponent)
                             /\ notna(r.career_da_at_venue)
                             /\ notna(r.round_num))

\* games_df.dropna(subset=["rolling_avg_5"])
dropna(df) == SelectSeq(df, LAMBDA r : notna(r.rolling_avg_5))

(***************************************************************************)
(* build_features, one action per stage it calls.                          *)
(***************************************************************************)
load_data ==
    /\ pc = "load_data"
    /\ LET read == read_csv(csv)
           timed == game_pct_filter(read)
           used == usage_filter(timed)
       IN  /\ heap' = <<used>>
           /\ games_df' = 1
    /\ opponent_stats' = opponent_csv
    /\ venue_stats' = venue_csv
    /\ pc' = "add_rolling_features"
    /\ UNCHANGED <<csv, opponent_csv, venue_csv, roundVars, scrapeVars>>

\* sort_values returns a new DataFrame; the three columns are assigned to it.
AddRollingFeatures ==
    /\ pc = "add_rolling_features"
    /\ heap' = Append(heap, add_rolling_features(heap[games_df]))
    /\ games_df' = Len(heap) + 1
    /\ pc' = "add_opponent_venue_features"
    /\ UNCHANGED <<csv, opponent_csv, venue_csv, opponent_stats, venue_stats, roundVars, scrapeVars>>

\* The columns are assigned to the DataFrame received, which is returned.
AddOpponentVenueFeatures ==
    /\ pc = "add_opponent_venue_features"
    /\ heap' = [heap EXCEPT ![games_df] =
                    add_opponent_venue_features(@, opponent_stats, venue_stats)]
    /\ pc' = "add_target_variables"
    /\ UNCHANGED <<csv, opponent_csv, venue_csv, games_df, opponent_stats, venue_stats,
                   roundVars, scrapeVars>>

AddTargetVariables ==
    /\ pc = "add_target_variables"
    /\ heap' = [heap EXCEPT ![games_df] = add_target_variables(@)]
    /\ pc' = "add_home_away_feature"
    /\ UNCHANGED <<csv, opponent_csv, venue_csv, games_df, opponent_stats, venue_stats,
                   roundVars, scrapeVars>>

AddHomeAwayFeature ==
    /\ pc = "add_home_away_feature"
    /\ heap' = [heap EXCEPT ![games_df] = add_home_away_feature(@)]
    /\ pc' = "dropna"
    /\ UNCHANGED <<csv, opponent_csv, venue_csv, games_df, opponent_stats, venue_stats,
                   roundVars, scrapeVars>>

\* dropna returns a new DataFrame, which build_features returns.
DropNa ==
    /\ pc = "dropna"
    /\ heap' = Append(heap, dropna(heap[games_df]))
    /\ games_df' = Len(heap) + 1
    /\ pc' = "done"
    /\ UNCHANGED <<csv, opponent_csv, venue_csv, opponent_stats, venue_stats, roundVars, scrapeVars>>

Next ==
    \/ load_data
    \/ AddRollingFeatures
    \/ AddOpponentVenueFeatures
    \/ AddTargetVariables
    \/ AddHomeAwayFeature
    \/ DropNa

(***************************************************************************)
(* Inputs.  A row of all_games.csv as get_all_player_data writes it.       *)
(***************************************************************************)
Game(player, season, opponent, round, disposals, game_pct) ==
    [player |-> player, season |-> season, opponent |-> opponent, round |-> round,
     result |-> "W", disposals |-> disposals, game_pct |-> game_pct]

EmptyStats == [index |-> {}, columns |-> {}, cell |-> <<>>]

\* Every cross-reference table over the given players, keys and cell values.
StatsTables(players, keys, cells) ==
    UNION {UNION {{[index |-> ix, columns |-> cs, cell |-> f] : f \in [ix \X cs -> cells]} :
                    cs \in SUBSET keys} : ix \in SUBSET players}

RECURSIVE SeqsUpTo(_, _)
SeqsUpTo(S, n) ==
    IF n = 0 THEN {<<>>}
    ELSE LET shorter == SeqsUpTo(S, n - 1)
         IN  shorter \cup {Append(s, x) : s \in {t \in shorter : Len(t) = n - 1}, x \in S}

InitIdle ==
    /\ round_str = IdleCell
    /\ round_num = NaN
    /\ InitScrapeIdle

InitPipeline ==
    /\ pc = "load_data"
    /\ heap = <<>>
    /\ games_df = 0
    /\ opponent_stats = EmptyStats
    /\ venue_stats = EmptyStats
    /\ InitIdle

(***************************************************************************)
(* Specification Spec: one player's log of up to MaxRows games, in every   *)
(* file order, over regular-season and finals rounds of two seasons.       *)
(***************************************************************************)
MaxRows == 4

OrderLabels == {<<"2">>, <<"1", "0">>, L_QF, L_SF, L_PF, L_GF}
OrderSeasons == {2023, 2024}
OrderGames ==
    {Game("Sam Berry", y, "Carlton", r, 12, Num(80)) : y \in OrderSeasons, r \in OrderLabels}

OrderStats ==
    [index |-> {"Sam Berry"}, columns |-> {"Carlton"},
     cell |-> (<<"Sam Berry", "Carlton">> :> Num(12))]

\* A player plays a round of a season once.
OneGamePerRound(log) ==
    \A i \in 1..Len(log) : \A j \in 1..Len(log) :
        (log[i].player = log[j].player /\ log[i].season = log[j].season
            /\ log[i].round = log[j].round) => i = j

Init ==
    /\ InitPipeline
    /\ csv \in {log \in SeqsUpTo(OrderGames, MaxRows) : OneGamePerRound(log)}
    /\ opponent_csv = OrderStats
    /\ venue_csv = EmptyStats

Spec == Init /\ [][Next]_vars

(***************************************************************************)
(* Chronological order of games, as the specification defines it.          *)
(***************************************************************************)
FinalsStage(label) ==
    CASE label = L_EF -> 1
      [] label = L_QF -> 1
      [] label = L_SF -> 2
      [] label = L_PF -> 3
      [] label = L_GF -> 4
      [] OTHER -> 0

HasRoundOrder(row) == isdigit(str(row.round)) \/ FinalsStage(str(row.round)) > 0

\* Game a is played strictly before game b.
ChronoBefore(a, b) ==
    \/ a.season < b.season
    \/ /\ a.season = b.season
       /\ LET la == str(a.round)
              lb == str(b.round)
          IN  \/ isdigit(la) /\ isdigit(lb) /\ int(la) < int(lb)
              \/ isdigit(la) /\ FinalsStage(lb) > 0
              \/ FinalsStage(la) > 0 /\ FinalsStage(la) < FinalsStage(lb)

Rolled == pc \in {"add_opponent_venue_features", "add_target_variables",
                  "add_home_away_feature", "dropna"}

RollingOf(row) == <<row.rolling_avg_5, row.rolling_avg_10, row.rolling_std_5>>

AltDisposals == {30}

\* C1 (no-lookahead): the three rolling values of game i are the same when the
\* stage is run on a log that differs only in the disposal count of game i
\* itself or of a chronologically later game of the same player.
C1_NoLookahead ==
    pc = "add_opponent_venue_features" =>
        LET in == heap[1]
            out == heap[games_df]
        IN  \A i \in 1..Len(in) : \A j \in 1..Len(in) : \A d \in AltDisposals :
                (/\ in[j].player = in[i].player
                 /\ HasRoundOrder(in[i]) /\ HasRoundOrder(in[j])
                 /\ (j = i \/ ChronoBefore(in[i], in[j])))
                => RollingOf(RowAt(add_rolling_features(
                                     [in EXCEPT ![j].disposals = d]), in[i].idx))
                   = RollingOf(RowAt(out, in[i].idx))

\* C2 (chronological sort): in the table the rolling stage works on, no game of
\* a player stands before a game of that player that was played earlier (by
\* season, then round order with numeric rounds by value and finals last).
C2_ChronologicalOrder ==
    Rolled =>
        LET out == heap[games_df]
        IN  \A i \in 1..Len(out) : \A j \in 1..Len(out) :
                (/\ i < j
                 /\ out[i].player = out[j].player
                 /\ HasRoundOrder(out[i]) /\ HasRoundOrder(out[j]))
                => ~ChronoBefore(out[j], out[i])

StageLeavesInput ==
    pc \in {"add_rolling_features", "add_opponent_venue_features",
            "add_target_variables", "add_home_away_feature"}
    => (heap'[games_df] = heap[games_df])

\* C8 (stage purity): each of the four stages leaves the table it received
\* (rows, row order and columns) as it was.
C8_StagePurity == [][StageLeavesInput]_vars

(***************************************************************************)
(* Specification SpecFilter: logs of up to MaxFilterRows games of two      *)
(* players around both thresholds of load_data.                            *)
(***************************************************************************)
MaxFilterRows == 3

FilterPlayers == {"Rory Laird", "Sam Berry"}
FilterDisposals == {7, 9}
FilterPcts == {NaN, Num(49), Num(50)}

\* The i-th row of the file is the game of round i.
FilterLogs ==
    {[i \in 1..Len(choice) |->
        Game(choice[i][1], 2023, "Carlton", IntToStr(i), choice[i][2], choice[i][3])] :
     choice \in SeqsUpTo(FilterPlayers \X FilterDisposals \X FilterPcts, MaxFilterRows)}

InitFilter ==
    /\ InitPipeline
    /\ csv \in FilterLogs
    /\ opponent_csv = OrderStats
    /\ venue_csv = EmptyStats

SpecFilter == InitFilter /\ [][Next]_vars

RECURSIVE SetSum(_, _)
SetSum(S, f) ==
    IF S = {} THEN 0
    ELSE LET x == CHOOSE y \in S : TRUE IN f[x] + SetSum(S \ {x}, f)

\* File rows (by position) that pass the game-time filter.
TimedRows == {i \in 1..Len(csv) : ~csv[i].game_pct.isna /\ csv[i].game_pct.v >= 50}
TimedRowsOf(p) == {i \in TimedRows : csv[i].player = p}
TimedTotal(p) == SetSum(TimedRowsOf(p), [i \in 1..Len(csv) |-> csv[i].disposals])

\* File rows the quality filter is to keep.
QualityRows == {i \in TimedRows : TimedTotal(csv[i].player) >= 8 * Cardinality(TimedRowsOf(csv[i].player))}

Loaded == pc # "load_data"

JoinPlayers == {"Rory Laird", "Sam Berry"}
JoinKeys == {"Carlton", "Geelong"}
OpponentCells == {NaN, Num(0), Num(12)}
VenueCells == {NaN, Num(7)}

JoinLog ==
    <<Game("Sam Berry", 2023, "Carlton", <<"1">>, 12, Num(80)),
      Game("Rory Laird", 2023, "Carlton", <<"1">>, 30, Num(90)),
      Game("Sam Berry", 2023, "Geelong", <<"2">>, 14, Num(80)),
      Game("Rory Laird", 2023, "Geelong", <<"2">>, 28, Num(90))>>

JoinVenues == <<Name("Carlton"), Name("Geelong"), NaNName, Name("Carlton")>>

\* The same log with a venue column added to the file.
JoinLogWithVenue == [i \in 1..Len(JoinLog) |-> ("venue" :> JoinVenues[i]) @@ JoinLog[i]]

InitJoin ==
    /\ InitPipeline
    /\ csv \in {JoinLog, JoinLogWithVenue}
    /\ opponent_csv \in StatsTables(JoinPlayers, JoinKeys, OpponentCells)
    /\ venue_csv \in StatsTables(JoinPlayers, JoinKeys, VenueCells)

SpecJoin == InitJoin /\ [][Next]_vars

Joined == pc \in {"add_target_variables", "add_home_away_feature", "dropna"}

\* The opponent file has a non-missing average for the pair.
HasHistory(player, opponent) ==
    /\ player \in opponent_csv.index
    /\ opponent \in opponent_csv.columns
    /\ ~opponent_csv.cell[<<player, opponent>>].isna

\* C6 (missing cross-reference yields null, not zero): career_da_vs_opponent
\* of a row is the opponent table's cell at (player, opponent) when the player
\* is a row of the table, the opponent a column and the cell non-missing, and
\* is null otherwise.
C6_OpponentLookup ==
    Joined =>
        \A k \in 1..Len(heap[games_df]) :
            LET row == heap[games_df][k]
                file == csv[row.idx + 1]
            IN  IF HasHistory(file.player, file.opponent)
                THEN /\ ~row.career_da_vs_opponent.isna
                     /\ row.career_da_vs_opponent.v
                            = opponent_csv.cell[<<file.player, file.opponent>>].v
                ELSE row.career_da_vs_opponent.isna

\* One joined table shows the four cases: a stored average of 0 returned as 0,
\* a missing cell, an opponent that is no column, and a player that is no row.
C6_Witness ==
    /\ pc = "add_target_variables"
    /\ opponent_csv.index = {"Sam Berry"}
    /\ opponent_csv.columns = {"Carlton"}
    /\ opponent_csv.cell[<<"Sam Berry", "Carlton">>] = Num(0)
    /\ \E k \in 1..Len(heap[games_df]) :
          /\ heap[games_df][k].player = "Sam Berry"
          /\ heap[games_df][k].opponent = "Carlton"
          /\ heap[games_df][k].career_da_vs_opponent = Num(0)
    /\ \E k \in 1..Len(heap[games_df]) :
          /\ heap[games_df][k].player = "Sam Berry"
          /\ heap[games_df][k].opponent = "Geelong"
          /\ heap[games_df][k].career_da_vs_opponent = NaN
    /\ \E k \in 1..Len(heap[games_df]) :
          /\ heap[games_df][k].player = "Rory Laird"
          /\ heap[games_df][k].career_da_vs_opponent = NaN

NoVenueColumn == \A i \in 1..Len(csv) : "venue" \notin DOMAIN csv[i]

\* C10 (no venue column): when the game log has no venue column, every row's
\* career_da_at_venue is null, whatever the venue table holds.
C10_VenueAlwaysNull ==
    (Joined /\ NoVenueColumn) =>
        \A k \in 1..Len(heap[games_df]) : heap[games_df][k].career_da_at_venue.isna

\* The venue table has an average for every player under every key, the log
\* has no venue column, and the joined rows all carry a null venue average.
C10_Witness ==
    /\ pc = "add_target_variables"
    /\ NoVenueColumn
    /\ venue_csv.index = JoinPlayers
    /\ venue_csv.columns = JoinKeys
    /\ \A c \in DOMAIN venue_csv.cell : venue_csv.cell[c] = Num(7)
    /\ Len(heap[games_df]) = Len(JoinLog)
    /\ \A k \in 1..Len(heap[games_df]) : heap[games_df][k].career_da_at_venue = NaN

(***************************************************************************)
(* Specification SpecLong: one player with MaxGames qualifying games (so   *)
(* that both windows fill and slide), every choice of their disposal       *)
(* counts, among rows of other players and rows the quality filter drops;  *)
(* and the log of the end-to-end scenario.                                 *)
(***************************************************************************)
MaxGames == 12

LongDisposals == {8, 20}
LongOpponent(i) == IF i % 2 = 1 THEN "Carlton" ELSE "Geelong"

\* A label no rule of parse_round recognises.
L_TBD == <<"T", "B", "D">>

LongGames(d, last) ==
    [i \in 1..MaxGames |->
        Game("Sam Berry", 2023, LongOpponent(i),
             IF i = MaxGames THEN last ELSE IntToStr(i), d[i], Num(80))]

\* Rows of other players, and rows that fail the quality filter, interleaved.
LongLog(d, last) ==
    <<Game("Rory Laird", 2023, "Carlton", <<"1">>, 30, Num(90)),
      Game("Jordan Dawson", 2023, "Carlton", <<"1">>, 5, Num(95))>>
    \o SubSeq(LongGames(d, last), 1, 3)
    \o <<Game("Sam Berry", 2023, "Geelong", <<"3">>, 0, NaN),
         Game("Rory Laird", 2023, "Geelong", <<"2">>, 40, Num(90))>>
    \o SubSeq(LongGames(d, last), 4, MaxGames)
    \o <<Game("Sam Berry", 2022, "Carlton", <<"9">>, 1, Num(20))>>

\* Every choice of disposal counts under numeric labels; the unrecognised
\* label on the last game of the all-minimum log.
LongLogs ==
    {LongLog(d, IntToStr(MaxGames)) : d \in [1..MaxGames -> LongDisposals]}
    \cup {LongLog([i \in 1..MaxGames |-> 8], L_TBD)}

ScenarioDisposals == <<10, 12, 14, 18, 9, 20>>
ScenarioLog ==
    [i \in 1..Len(ScenarioDisposals) |->
        Game("Sam Berry", 2023, LongOpponent(i), IntToStr(i), ScenarioDisposals[i], Num(80))]

LongStats ==
    [index |-> {"Sam Berry"}, columns |-> {"Carlton"},
     cell |-> (<<"Sam Berry", "Carlton">> :> Num(12))]

InitLong ==
    /\ InitPipeline
    /\ csv \in LongLogs \cup {ScenarioLog}
    /\ opponent_csv = LongStats
    /\ venue_csv = EmptyStats

SpecLong == InitLong /\ [][Next]_vars

\* The table the rolling stage returned (the second DataFrame held).
RolledTable == heap[2]

\* Positions of the same player's rows before position i, nearest last.
PriorRows(df, i) == {j \in 1..(i - 1) : df[j].player = df[i].player}
NearestPrior(df, i, w) ==
    {j \in PriorRows(df, i) : Cardinality({m \in PriorRows(df, i) : m > j}) < w}

ExpectedAvg(df, i, w, minobs) ==
    LET k == Cardinality(PriorRows(df, i))
        near == NearestPrior(df, i, w)
    IN  IF k < minobs THEN [isna |-> TRUE, sum |-> 0, n |-> 0]
        ELSE [isna |-> FALSE,
              sum |-> SetSum(near, [j \in 1..Len(df) |-> df[j].disposals]),
              n |-> Min(k, w)]

AvgOf(stat) == [isna |-> stat.isna, sum |-> stat.sum, n |-> stat.n]

\* C3 (window and minimum-observation policy): with k rows of the player
\* before a row, rolling_avg_5 is null when k < 3 and else the mean of the
\* min(k, 5) nearest preceding rows of that player; rolling_avg_10 is null
\* when k < 5 and else the mean of the min(k, 10) nearest preceding rows.
C3_WindowPolicy ==
    pc = "add_opponent_venue_features" =>
        \A i \in 1..Len(RolledTable) :
            /\ AvgOf(RolledTable[i].rolling_avg_5) = ExpectedAvg(RolledTable, i, 5, 3)
            /\ AvgOf(RolledTable[i].rolling_avg_10) = ExpectedAvg(RolledTable, i, 10, 5)

\* The scenario's sixth game has rolling_avg_5 = 63/5.
C3_Witness ==
    /\ pc = "add_opponent_venue_features"
    /\ csv = ScenarioLog
    /\ RolledTable[6].disposals = 20
    /\ RolledTable[6].rolling_avg_5.sum = 63
    /\ RolledTable[6].rolling_avg_5.n = 5
    /\ ~RolledTable[6].rolling_avg_5.isna
    /\ RolledTable[3].rolling_avg_5.isna
    /\ ~RolledTable[4].rolling_avg_5.isna
    /\ RolledTable[5].rolling_avg_10.isna
    /\ ~RolledTable[6].rolling_avg_10.isna

Done == pc = "done"
FinalTable == heap[games_df]

\* C5 (final-table membership): a game row is in the table build_features
\* returns exactly when it passed the quality filter and its rolling_avg_5 is
\* non-null; the row is returned as enriched.
C5_FinalMembership ==
    Done =>
        /\ Index(FinalTable)
              = {id \in {i - 1 : i \in QualityRows} :
                    ~RowAt(RolledTable, id).rolling_avg_5.isna}
        /\ \A k \in 1..Len(FinalTable) :
              /\ ~FinalTable[k].rolling_avg_5.isna
              /\ FinalTable[k] = RowAt(RolledTable, FinalTable[k].idx)

\* The returned table holds a row with null opponent average and null
\* rolling_avg_10, a row with null round_num, only null venue averages; and a
\* row that passed the quality filter is absent for its null rolling_avg_5.
C5_Witness ==
    /\ Done
    /\ \E k \in 1..Len(FinalTable) :
          FinalTable[k].career_da_vs_opponent.isna /\ FinalTable[k].rolling_avg_10.isna
    /\ \E k \in 1..Len(FinalTable) : FinalTable[k].round_num.isna
    /\ \A k \in 1..Len(FinalTable) : FinalTable[k].career_da_at_venue.isna
    /\ \E i \in QualityRows : (i - 1) \notin Index(FinalTable)
    /\ \E i \in 1..Len(csv) : i \notin QualityRows

(***************************************************************************)
(* C7: the round ordinal, stated on the text of the label.                 *)
(***************************************************************************)
NonBlank(s) == {i \in 1..Len(s) : s[i] # " "}
Trimmed(s) ==
    IF NonBlank(s) = {} THEN <<>>
    ELSE SubSeq(s, CHOOSE i \in NonBlank(s) : \A j \in NonBlank(s) : i <= j,
                   CHOOSE i \in NonBlank(s) : \A j \in NonBlank(s) : i >= j)

RECURSIVE Pow10(_)
Pow10(k) == IF k = 0 THEN 1 ELSE 10 * Pow10(k - 1)

AllDigits(s) == Len(s) > 0 /\ \A i \in 1..Len(s) : s[i] \in DigitChars
DecimalValue(s) ==
    SetSum(1..Len(s),
           [i \in 1..Len(s) |->
               ((CHOOSE d \in 0..9 : DigitSeq[d + 1] = s[i]) * Pow10(Len(s) - i))])

ExpectedOrdinal(label) ==
    LET t == Trimmed(label)
    IN  IF AllDigits(t) THEN Num(DecimalValue(t))
        ELSE IF t \in {L_EF, L_QF} THEN Num(25)
        ELSE IF t = L_SF THEN Num(26)
        ELSE IF t = L_PF THEN Num(27)
        ELSE IF t = L_GF THEN Num(28)
        ELSE NaN

MaxRuns == 2

SEASONS == <<2022, 2023, 2024>>
TEAMS == <<"adelaide", "brisbane">>

\* What the team's season page lists (get_team_players on a good response).
Roster(team, season) ==
    IF team = "adelaide"
    THEN IF season = 2022 THEN <<"Rory Laird", "Sam Berry">>
         ELSE <<"Jordan Dawson", "Rory Laird", "Sam Berry">>
    ELSE <<"Lachie Neale">>

Range(q) == {q[i] : i \in 1..Len(q)}

\* The position after team ti of season si: the next team, the next season, or
\* the end of both loops.
NextTeam(m) ==
    IF m.ti < Len(TEAMS) THEN [m EXCEPT !.at = "team", !.ti = m.ti + 1, !.players = <<>>]
    ELSE IF m.si < Len(SEASONS)
         THEN [m EXCEPT !.at = "team", !.si = m.si + 1, !.ti = 1, !.players = <<>>]
         ELSE [m EXCEPT !.at = "save", !.players = <<>>]

NextPlayer(m) ==
    IF m.pi < Len(m.players) THEN [m EXCEPT !.pi = m.pi + 1] ELSE NextTeam(m)

InitScrape ==
    /\ pc = "scrape"
    /\ csv = <<>>
    /\ opponent_csv = EmptyStats
    /\ venue_csv = EmptyStats
    /\ heap = <<>>
    /\ games_df = 0
    /\ opponent_stats = EmptyStats
    /\ venue_stats = EmptyStats
    /\ InitIdle

\* save_all_data is called: its locals start empty.
StartRun ==
    /\ mem.at = "exited"
    /\ fetched.runs < MaxRuns
    /\ mem' = [at |-> "team", si |-> 1, ti |-> 1, pi |-> 0, players |-> <<>>,
               all_games |-> <<>>, all_opponent_stats |-> {}, all_venue_stats |-> {},
               scraped_players |-> {}]
    /\ fetched' = [fetched EXCEPT !.now = {}, !.runs = @ + 1]
    /\ UNCHANGED <<pc, disk, pipelineVars, roundVars>>

\* players = get_team_players(team, season): the roster, or [] on a failure.
GetTeamPlayers ==
    /\ mem.at = "team"
    /\ \E players \in {Roster(TEAMS[mem.ti], SEASONS[mem.si]), <<>>} :
          mem' = IF players = <<>> THEN NextTeam(mem)
                 ELSE [mem EXCEPT !.at = "player", !.pi = 1, !.players = players]
    /\ UNCHANGED <<pc, disk, fetched, pipelineVars, roundVars>>

\* One iteration of the loop over players, for a player already scraped.
SkipPlayer ==
    /\ mem.at = "player"
    /\ mem.players[mem.pi] \in mem.scraped_players
    /\ mem' = NextPlayer(mem)
    /\ UNCHANGED <<pc, disk, fetched, pipelineVars, roundVars>>

\* One iteration for a player not yet scraped: the page is requested, and its
\* data (when the request succeeded) is kept in memory.
ScrapePlayer ==
    /\ mem.at = "player"
    /\ mem.players[mem.pi] \notin mem.scraped_players
    /\ LET player_name == mem.players[mem.pi]
       IN  /\ \E ok \in BOOLEAN :
                mem' = NextPlayer(
                    IF ok
                    THEN [mem EXCEPT !.all_games = Append(@, player_name),
                                     !.all_opponent_stats = @ \cup {player_name},
                                     !.all_venue_stats = @ \cup {player_name},
                                     !.scraped_players = @ \cup {player_name}]
                    ELSE [mem EXCEPT !.scraped_players = @ \cup {player_name}])
           /\ fetched' = [fetched EXCEPT !.now = @ \cup {player_name}]
    /\ UNCHANGED <<pc, disk, pipelineVars, roundVars>>

\* The three files are written from memory (all_games.csv only when there are
\* games), and save_all_data returns.
SaveData ==
    /\ mem.at = "save"
    /\ disk' = [games |-> IF mem.all_games # <<>> THEN Range(mem.all_games) ELSE disk.games,
                opponent |-> mem.all_opponent_stats,
                venue |-> mem.all_venue_stats]
    /\ mem' = NoProcess
    /\ fetched' = [fetched EXCEPT !.now = {}]
    /\ UNCHANGED <<pc, pipelineVars, roundVars>>

\* The process is interrupted before it has saved: its memory is gone.
Interrupt ==
    /\ mem.at \in {"team", "player", "save"}
    /\ fetched' = [fetched EXCEPT !.earlier = @ \cup Range(mem.all_games), !.now = {}]
    /\ mem' = NoProcess
    /\ UNCHANGED <<pc, disk, pipelineVars, roundVars>>

NextScrape ==
    \/ StartRun
    \/ GetTeamPlayers
    \/ SkipPlayer
    \/ ScrapePlayer
    \/ SaveData
    \/ Interrupt

SpecScrape == InitScrape /\ [][NextScrape]_vars

\* C9 (scraper resumption): no player whose data an interrupted earlier run
\* had fetched is requested again by a later run, and that data is on disk.
C9_Resumption ==
    /\ fetched.earlier \cap fetched.now = {}
    /\ fetched.earlier \subseteq disk.games

====
